---- MODULE Spec2Model ----
(***************************************************************************)
(* The iterative design / simulate / evaluate / feedback loop of           *)
(* ProcessDesignerAgent (src/src/agent/process_designer.py).               *)
(*                                                                         *)
(* Conventions of the model                                                *)
(*  - Python dicts are records; d.get(k, default) is Get(d, k, default).   *)
(*  - Python None is the record None.                                      *)
(*  - Formatted strings keep their data: f"Mass balance error: {e}%" is    *)
(*    the tuple <<"Mass balance error", e>>.                               *)
(*  - Scores are exact rationals held as integers in units of 1/ScoreScale *)
(*    of a score point; balance errors are whole percents and per-product  *)
(*    scores are hundredths (a product score of 1.0 is 100).               *)
(*  - The collaborators (language model, converter, simulator, evaluator,  *)
(*    file system) are inputs: each call returns one of a small set of     *)
(*    values or raises.                                                    *)
(***************************************************************************)
EXTENDS Integers, Sequences, FiniteSets, TLC

VARIABLES
    current_iteration,   \* self.current_iteration
    max_iterations,      \* self.max_iterations
    best_design,         \* self.best_design
    best_score,          \* self.best_score
    history,             \* self.history
    pc,                  \* position of run(): "loop", "convert", "simulate",
                         \* "evaluate", "returned", "raised"
    retval,              \* value returned by run() once pc = "returned"
    exception,           \* exception that left run() once pc = "raised"
    response,            \* local response of _generate_process_design
    process_design,      \* local process_design of the iteration
    simulation_results,  \* local simulation_results of the iteration
    evaluation,          \* local evaluation of the iteration
    feedback,            \* local feedback of the iteration
    request_feedback,    \* feedback folded into the last generation request
    feedback_files,      \* iteration_<n>/feedback.json, by n
    final_report,        \* contents of final_report.json
    report_calls,        \* number of calls of _generate_final_report
    calls,               \* collaborator calls of the current iteration, in order
    processes,           \* simulator process started in each iteration: its state
    simulator_run,       \* one call of run_simulation: what the external
                         \* process does and the results file it leaves
    score_log            \* scores computed so far: <<iteration, score>> pairs

vars == <<current_iteration, max_iterations, best_design, best_score, history,
          pc, retval, exception, process_design, simulation_results, evaluation,
          feedback, request_feedback, feedback_files, final_report, report_calls,
          calls,
          score_log, response, processes, simulator_run>>

----------------------------------------------------------------------------
(* Bounds and value sets *)

MaxIterations == 3

ScoreScale == 2 * 3

None == [none |-> TRUE]

NegInf == -1

Products == {"P1", "P2"}

Get(d, k, default) == IF k \in DOMAIN d THEN d[k] ELSE default

Min(a, b) == IF a < b THEN a ELSE b

Max(a, b) == IF a > b THEN a ELSE b

Abs(a) == IF a < 0 THEN 0 - a ELSE a

EmptyDict == [k \in {} |-> 0]

----------------------------------------------------------------------------
(* _generate_feedback *)

\* The suggestion appended for one product issue (at most one).
ProductSuggestion(product_name, issue_type) ==
    CASE issue_type = "purity" ->
            << <<"Improve separation to increase purity", product_name>> >>
      [] issue_type = "yield" ->
            << <<"Adjust reaction conditions or improve recovery", product_name>> >>
      [] issue_type = "production_rate" ->
            << <<"Increase feed rate or improve conversion", product_name>> >>
      [] issue_type = "temperature" ->
            << <<"Adjust cooling/heating", product_name>> >>
      [] issue_type = "pressure" ->
            << <<"Adjust pressure control", product_name>> >>
      [] OTHER -> <<>>

\* product_issues entries in iteration order; issues is a sequence of
\* <<product_name, issue_type>> pairs (the items of the nested dicts).
RECURSIVE ProductIssueMessages(_)
ProductIssueMessages(issues) ==
    IF issues = <<>> THEN <<>>
    ELSE << <<issues[1][1], issues[1][2]>> >> \o ProductIssueMessages(Tail(issues))

RECURSIVE ProductIssueSuggestions(_)
ProductIssueSuggestions(issues) ==
    IF issues = <<>> THEN <<>>
    ELSE ProductSuggestion(issues[1][1], issues[1][2])
            \o ProductIssueSuggestions(Tail(issues))

\* Mutant: the product specifications are tested before the balances.
FeedbackStatus_SpecsFirst(mass_balance_satisfied, energy_balance_satisfied, all_products_meet_specs) ==
    IF mass_balance_satisfied /\ energy_balance_satisfied /\ all_products_meet_specs
    THEN "success"
    ELSE IF ~all_products_meet_specs
         THEN "product_specs_not_met"
         ELSE "constraint_violation"

FeedbackStatus(mass_balance_satisfied, energy_balance_satisfied, all_products_meet_specs) ==
    IF mass_balance_satisfied /\ energy_balance_satisfied /\ all_products_meet_specs
    THEN "success"
    ELSE IF ~(mass_balance_satisfied /\ energy_balance_satisfied)
         THEN "constraint_violation"
         ELSE "product_specs_not_met"

FeedbackMessage(status) ==
    CASE status = "success" ->
            <<"Process design meets all requirements and constraints!", "">>
      [] status = "constraint_violation" ->
            <<"Process design violates fundamental constraints", "">>
      [] OTHER ->
            <<"Process design does not meet all product specifications", "">>

\* Mutant: the suggestions for the product issues come first.
GenerateFeedback_ProductsFirst(constraint_results, product_evaluation) ==
    LET mass_balance_satisfied ==
            Get(constraint_results, "mass_balance_satisfied", FALSE)
        energy_balance_satisfied ==
            Get(constraint_results, "energy_balance_satisfied", FALSE)
        mass_issue ==
            IF ~mass_balance_satisfied
            THEN << <<"Mass balance error",
                      Get(constraint_results, "mass_balance_error", "unknown")>> >>
            ELSE <<>>
        mass_suggestion ==
            IF ~mass_balance_satisfied
            THEN << <<"Adjust flow rates or component splits to ensure mass conservation",
                      "">> >>
            ELSE <<>>
        energy_issue ==
            IF ~energy_balance_satisfied
            THEN << <<"Energy balance error",
                      Get(constraint_results, "energy_balance_error", "unknown")>> >>
            ELSE <<>>
        energy_suggestion ==
            IF ~energy_balance_satisfied
            THEN << <<"Review heat duties and enthalpy calculations for energy conservation",
                      "">> >>
            ELSE <<>>
        all_products_meet_specs ==
            Get(product_evaluation, "all_specifications_met", FALSE)
        product_issues == Get(product_evaluation, "issues", <<>>)
        status == FeedbackStatus(mass_balance_satisfied, energy_balance_satisfied,
                                 all_products_meet_specs)
    IN  [status |-> status,
         message |-> FeedbackMessage(status),
         constraint_issues |-> mass_issue \o energy_issue,
         product_issues |-> ProductIssueMessages(product_issues),
         suggestions |-> ProductIssueSuggestions(product_issues)
                            \o mass_suggestion \o energy_suggestion]

GenerateFeedback(constraint_results, product_evaluation) ==
    LET mass_balance_satisfied ==
            Get(constraint_results, "mass_balance_satisfied", FALSE)
        energy_balance_satisfied ==
            Get(constraint_results, "energy_balance_satisfied", FALSE)
        mass_issue ==
            IF ~mass_balance_satisfied
            THEN << <<"Mass balance error",
                      Get(constraint_results, "mass_balance_error", "unknown")>> >>
            ELSE <<>>
        mass_suggestion ==
            IF ~mass_balance_satisfied
            THEN << <<"Adjust flow rates or component splits to ensure mass conservation",
                      "">> >>
            ELSE <<>>
        energy_issue ==
            IF ~energy_balance_satisfied
            THEN << <<"Energy balance error",
                      Get(constraint_results, "energy_balance_error", "unknown")>> >>
            ELSE <<>>
        energy_suggestion ==
            IF ~energy_balance_satisfied
            THEN << <<"Review heat duties and enthalpy calculations for energy conservation",
                      "">> >>
            ELSE <<>>
        all_products_meet_specs ==
            Get(product_evaluation, "all_specifications_met", FALSE)
        product_issues == Get(product_evaluation, "issues", <<>>)
        status == FeedbackStatus(mass_balance_satisfied, energy_balance_satisfied,
                                 all_products_meet_specs)
    IN  [status |-> status,
         message |-> FeedbackMessage(status),
         constraint_issues |-> mass_issue \o energy_issue,
         product_issues |-> ProductIssueMessages(product_issues),
         suggestions |-> mass_suggestion \o energy_suggestion
                            \o ProductIssueSuggestions(product_issues)]

----------------------------------------------------------------------------
(* _calculate_design_score *)

\* Sum over the products of (100 - normalized_score) * product_weight, in
\* units of 1/ScoreScale; product_weight = 1 / num_products.
RECURSIVE ProductPenalty(_, _, _)
ProductPenalty(product_scores, names, num_products) ==
    IF names = {} THEN 0
    ELSE LET product_name == CHOOSE n \in names : TRUE
         IN  ((100 - product_scores[product_name]) * ScoreScale) \div num_products
                + ProductPenalty(product_scores, names \ {product_name}, num_products)

\* Mutant: the mass-balance penalty is added instead of subtracted.
MassPenalty_Sign(constraint_results) ==
    IF ~Get(constraint_results, "mass_balance_satisfied", FALSE)
    THEN 0 - Min(50 * ScoreScale,
                 Abs(Get(constraint_results, "mass_balance_error", 0)) * 10 * ScoreScale)
    ELSE 0

MassPenalty(constraint_results) ==
    IF ~Get(constraint_results, "mass_balance_satisfied", FALSE)
    THEN Min(50 * ScoreScale,
             Abs(Get(constraint_results, "mass_balance_error", 0)) * 10 * ScoreScale)
    ELSE 0

\* Mutant: the energy-balance penalty uses the factor of the mass balance.
EnergyPenalty_Factor(constraint_results) ==
    IF ~Get(constraint_results, "energy_balance_satisfied", FALSE)
    THEN Min(50 * ScoreScale,
             Abs(Get(constraint_results, "energy_balance_error", 0)) * 10 * ScoreScale)
    ELSE 0

EnergyPenalty(constraint_results) ==
    IF ~Get(constraint_results, "energy_balance_satisfied", FALSE)
    THEN Min(50 * ScoreScale,
             Abs(Get(constraint_results, "energy_balance_error", 0)) * 5 * ScoreScale)
    ELSE 0

\* Mutant: the result is not clamped at 0.
CalculateDesignScore_NoClamp(constraint_results, product_evaluation) ==
    LET product_scores == Get(product_evaluation, "product_scores", EmptyDict)
        num_products == Cardinality(DOMAIN product_scores)
    IN  100 * ScoreScale
           - MassPenalty(constraint_results)
           - EnergyPenalty(constraint_results)
           - ProductPenalty(product_scores, DOMAIN product_scores, num_products)

CalculateDesignScore(constraint_results, product_evaluation) ==
    LET product_scores == Get(product_evaluation, "product_scores", EmptyDict)
        num_products == Cardinality(DOMAIN product_scores)
    IN  Max(0, 100 * ScoreScale
                 - MassPenalty(constraint_results)
                 - EnergyPenalty(constraint_results)
                 - ProductPenalty(product_scores, DOMAIN product_scores, num_products))

----------------------------------------------------------------------------
(* Values the collaborators return *)

\* Designs returned by _generate_process_design.
Designs == {[kind |-> "structured"]}

\* Python values other than dicts: a str is a record with field "str" (its
\* text: prose, or prose around a ```json fenced block), a list is a record
\* with field "list".
ProseStr == [str |-> "prose"]

FencedStr(block) == [str |-> "fenced", block |-> block]

Strs == {ProseStr, FencedStr("object"), FencedStr("broken")}

AList == [list |-> <<>>]

IsStr(v) == "str" \in DOMAIN v

IsDict(v) == "str" \notin DOMAIN v /\ "list" \notin DOMAIN v

\* What the chat completion gives: the call raises, or the message content
\* is None, the text of a JSON object, of a JSON array, of a JSON string,
\* or a text that is not JSON.
ClientOutcomes ==
    {[kind |-> "raises"], [kind |-> "none"], [kind |-> "object"],
     [kind |-> "array"], [kind |-> "not_json"]}
      \cup {[kind |-> "string", value |-> v] : v \in Strs}

\* Mutant: an exception of the chat completion leaves generate_process_design.
ModelManagerResponse_Propagates(outcome) ==
    CASE outcome.kind = "raises" -> [raised |-> "APIError"]
      [] outcome.kind = "none" -> [raised |-> "TypeError"]
      [] outcome.kind = "object" -> CHOOSE d \in Designs : TRUE
      [] outcome.kind = "array" -> AList
      [] outcome.kind = "string" -> outcome.value
      [] OTHER -> [design_description |-> [str |-> "not_json"]]

\* OpenAIModelManager.generate_process_design: json.loads of the content;
\* JSONDecodeError wraps the raw content, any other exception (the call
\* raising, json.loads(None)) gives {"error": str(e)}. A result
\* [raised |-> e] stands for an exception leaving the method: there is none.
ModelManagerResponse(outcome) ==
    CASE outcome.kind = "raises" -> [error |-> "APIError"]
      [] outcome.kind = "none" -> [error |-> "TypeError"]
      [] outcome.kind = "object" -> CHOOSE d \in Designs : TRUE
      [] outcome.kind = "array" -> AList
      [] outcome.kind = "string" -> outcome.value
      [] OTHER -> [design_description |-> [str |-> "not_json"]]

\* Mutant: a fenced block that fails to parse leaves no design.
GenerateProcessDesign_Strict(resp) ==
    IF IsDict(resp) THEN resp
    ELSE IF IsStr(resp) /\ resp.str = "fenced"
         THEN IF resp.block = "object"
              THEN CHOOSE d \in Designs : TRUE
              ELSE None
         ELSE [design_description |-> resp]

\* Lines 235-251: a dict is the design; in a str the ```json block is
\* parsed; without a block, or when anything in the try raises (json.loads
\* on a broken block, re.search on a value that is no str), the response is
\* wrapped as {"design_description": response}.
GenerateProcessDesign(resp) ==
    IF IsDict(resp) THEN resp
    ELSE IF IsStr(resp) /\ resp.str = "fenced"
         THEN IF resp.block = "object"
              THEN CHOOSE d \in Designs : TRUE
              ELSE [design_description |-> resp]
         ELSE [design_description |-> resp]

\* The outcomes of the chat completion drawn in the iterations of run().
LoopClientOutcomes ==
    {[kind |-> "object"], [kind |-> "raises"],
     [kind |-> "string", value |-> FencedStr("broken")]}

\* Results returned by DWSIMSimulator.run_simulation: any dict whose status
\* is not "error", the empty dict included.
SimulationResults == {[streams |-> "streams"], EmptyDict}

\* Constraint results handed to _generate_feedback and _calculate_design_score
\* by run(): both balances satisfied, the mass balance violated by 3%, and
\* a dict without the balance keys.
LoopConstraintResults ==
    { [mass_balance_satisfied |-> TRUE, mass_balance_error |-> 0,
       energy_balance_satisfied |-> TRUE, energy_balance_error |-> 0],
      [mass_balance_satisfied |-> FALSE, mass_balance_error |-> 3,
       energy_balance_satisfied |-> TRUE, energy_balance_error |-> 0],
      EmptyDict }

\* Product evaluations handed to _generate_feedback and _calculate_design_score
\* by run(): the one product met, and unmet on purity.
LoopProductEvaluations ==
    { [all_specifications_met |-> TRUE, product_scores |-> [p \in {"P1"} |-> 100],
       issues |-> <<>>],
      [all_specifications_met |-> FALSE, product_scores |-> [p \in {"P1"} |-> 70],
       issues |-> << <<"P1", "purity">> >>] }

\* A dict key that may be absent: <<>> is absent, <<v>> is present with v.
Optional(values) == {<<>>} \cup {<<v>> : v \in values}

Entry(k, opt) == IF opt = <<>> THEN EmptyDict ELSE (k :> opt[1])

ErrorValues == {0 - 6, 0, 3, 12}

ScoreValues == {0, 70, 100}

\* Every dict _generate_feedback and _calculate_design_score may be given as
\* constraint_results: each key they read is present or absent.
ConstraintResults ==
    { Entry("mass_balance_satisfied", ms) @@ Entry("mass_balance_error", me)
        @@ Entry("energy_balance_satisfied", es) @@ Entry("energy_balance_error", ee) :
      ms \in Optional(BOOLEAN), me \in Optional(ErrorValues),
      es \in Optional(BOOLEAN), ee \in Optional(ErrorValues) }

ProductScores == UNION { [names -> ScoreValues] : names \in SUBSET Products }

IssueLists ==
    { <<>>,
      << <<"P1", "purity">> >>,
      << <<"P1", "yield">>, <<"P1", "production_rate">> >>,
      << <<"P1", "not found">> >>,
      << <<"P1", "temperature">>, <<"P2", "pressure">> >> }

\* Every dict they may be given as product_evaluation.
ProductEvaluations ==
    { Entry("all_specifications_met", met) @@ Entry("product_scores", scores)
        @@ Entry("issues", issues) :
      met \in Optional(BOOLEAN), scores \in Optional(ProductScores),
      issues \in Optional(IssueLists) }

----------------------------------------------------------------------------
(* _format_feedback_context, _record_iteration_results, _generate_final_report *)

\* The sections of the text formatted from one feedback.json: the status,
\* the message or its default, and the three lists, a list that is absent
\* or empty printing nothing.
FormattedFeedback(last_iteration, fb) ==
    [last_iteration |-> last_iteration,
     status |-> fb.status,
     message |-> Get(fb, "message", <<"No specific issues found.", "">>),
     constraint_issues |-> Get(fb, "constraint_issues", <<>>),
     product_issues |-> Get(fb, "product_issues", <<>>),
     suggestions |-> Get(fb, "suggestions", <<>>)]

\* Mutant: the feedback is read from the iteration before the last one.
FormatFeedbackContext_Earlier(files, iteration) ==
    LET last_iteration == iteration - 2
    IN  IF last_iteration \notin DOMAIN files
        THEN [text |-> "No feedback available from previous iterations."]
        ELSE IF "status" \notin DOMAIN files[last_iteration]
        THEN [text |-> "Error retrieving feedback from previous iterations."]
        ELSE FormattedFeedback(last_iteration, files[last_iteration])

\* The text formatted from the feedback.json of iteration n - 1. A file
\* that json.load cannot parse, or whose document has no "status", raises
\* inside the try and gives the second fixed text.
FormatFeedbackContext(files, iteration) ==
    LET last_iteration == iteration - 1
    IN  IF last_iteration \notin DOMAIN files
        THEN [text |-> "No feedback available from previous iterations."]
        ELSE IF "status" \notin DOMAIN files[last_iteration]
        THEN [text |-> "Error retrieving feedback from previous iterations."]
        ELSE FormattedFeedback(last_iteration, files[last_iteration])

\* if simulation_results: a dict is true when it is not empty.
Truthy(d) == d # None /\ DOMAIN d # {}

\* Mutant: the simulation results path is recorded whatever the results are.
IterationRecord_AlwaysPath(iteration, sim, fb) ==
    [iteration |-> iteration, process_design_path |-> iteration,
     feedback |-> fb, simulation_results_path |-> iteration]

\* Mutant: recording marks the feedback it is given.
IterationRecord_MarksFeedback(iteration, sim, fb) ==
    [iteration |-> iteration, process_design_path |-> iteration,
     feedback |-> [fb EXCEPT !["status"] = "recorded"]]

IterationRecord(iteration, sim, fb) ==
    IF Truthy(sim)
    THEN [iteration |-> iteration, process_design_path |-> iteration,
          feedback |-> fb, simulation_results_path |-> iteration]
    ELSE [iteration |-> iteration, process_design_path |-> iteration,
          feedback |-> fb]

\* History after _record_iteration_results; io names the write that fails
\* ("feedback", "history") or is "ok".
\* Mutant: an iteration without simulation results is not recorded.
RecordedHistory_SkipsErrors(hist, iteration, sim, fb, io) ==
    IF io = "feedback" \/ ~Truthy(sim) THEN hist
    ELSE Append(hist, IterationRecord(iteration, sim, fb))

RecordedHistory(hist, iteration, sim, fb, io) ==
    IF io = "feedback" THEN hist
    ELSE Append(hist, IterationRecord(iteration, sim, fb))

\* feedback.json files after _record_iteration_results.
\* Mutant: the feedback of an iteration is not written to its feedback.json.
WrittenFeedback_NotPersisted(files, iteration, fb, io) == files

WrittenFeedback(files, iteration, fb, io) ==
    IF io = "feedback" THEN files ELSE (iteration :> fb) @@ files

FinalReportSuccess(best) ==
    /\ Get(best.evaluation.product_evaluation, "all_specifications_met", FALSE)
    /\ Get(best.evaluation.constraint_check, "mass_balance_satisfied", FALSE)
    /\ Get(best.evaluation.constraint_check, "energy_balance_satisfied", FALSE)

\* Mutant: the summary counts the iterations up to the best one.
FinalReport_TotalIsBest(iteration, best, score) ==
    [summary |-> [total_iterations |-> best.iteration,
                  best_iteration |-> best.iteration,
                  best_score |-> score,
                  success |-> FinalReportSuccess(best)],
     performance_metrics |->
        [mass_balance_error |->
            Get(best.evaluation.constraint_check, "mass_balance_error", "Unknown"),
         energy_balance_error |->
            Get(best.evaluation.constraint_check, "energy_balance_error", "Unknown")]]

\* The document written to final_report.json.
FinalReport(iteration, best, score) ==
    [summary |-> [total_iterations |-> iteration,
                  best_iteration |-> best.iteration,
                  best_score |-> score,
                  success |-> FinalReportSuccess(best)],
     performance_metrics |->
        [mass_balance_error |->
            Get(best.evaluation.constraint_check, "mass_balance_error", "Unknown"),
         energy_balance_error |->
            Get(best.evaluation.constraint_check, "energy_balance_error", "Unknown")]]

ConversionErrorFeedback(e) ==
    [status |-> "error",
     message |-> <<"Failed to convert design to DWSIM model", e>>,
     suggestions |-> << <<"Ensure all units and connections are properly specified", "">>,
                        <<"Check for invalid operation parameters", "">> >>]

\* Mutant: the simulation failure is reported under another status.
SimulationErrorFeedback_Status(e) ==
    [status |-> "simulation_failed",
     message |-> <<"Simulation failed", e>>,
     suggestions |-> << <<"Check for invalid input parameters", "">> >>]

SimulationErrorFeedback(e) ==
    [status |-> "error",
     message |-> <<"Simulation failed", e>>,
     suggestions |-> << <<"Check for invalid input parameters", "">>,
                        <<"Ensure thermodynamic property package is appropriate for components", "">> >>]

\* _generate_final_report up to the write of final_report.json: the report
\* is skipped when there is no best design.
GeneratedReport(old_report, iteration, best, score) ==
    IF best = None THEN old_report ELSE FinalReport(iteration, best, score)

\* Mutant: a score equal to the best replaces the best design.
UpdatesBest_OnTie(current_score, best) == current_score >= best

\* Mutant: the first evaluated design is not stored, only an improvement on
\* a stored one.
UpdatesBest_AfterFirst(current_score, best) == best # NegInf /\ current_score > best

\* Mutant: every evaluated design replaces the best design.
UpdatesBest_Always(current_score, best) == TRUE

\* if current_score > self.best_score
UpdatesBest(current_score, best) == current_score > best

\* Mutant: the loop runs one iteration too many.
LoopCondition_Inclusive(iteration, maximum) == iteration <= maximum

\* while self.current_iteration < self.max_iterations
LoopCondition(iteration, maximum) == iteration < maximum

\* Mutant: the success check never stops the loop.
Succeeded_Never(fb) == FALSE

\* if feedback["status"] == "success"
Succeeded(fb) == fb.status = "success"

----------------------------------------------------------------------------
(* run() *)

Init ==
    /\ current_iteration = 0
    /\ max_iterations \in 0..MaxIterations
    /\ best_design = None
    /\ best_score = NegInf
    /\ history = <<>>
    /\ pc = "loop"
    /\ retval = None
    /\ exception = "none"
    /\ process_design = None
    /\ simulation_results = None
    /\ evaluation = None
    /\ feedback = None
    /\ request_feedback = None
    /\ feedback_files = EmptyDict
    /\ final_report = None
    /\ report_calls = 0
    /\ calls = <<>>
    /\ score_log = <<>>
    /\ response = None
    /\ processes = EmptyDict
    /\ simulator_run = None

\* Lines 119-133: the loop test, the design request and the write of the
\* design. The call of the model manager (line 233) is outside every try:
\* an exception leaving it would leave run().
BeginIteration ==
    /\ pc = "loop"
    /\ LoopCondition(current_iteration, max_iterations)
    /\ current_iteration' = current_iteration + 1
    /\ \E outcome \in LoopClientOutcomes, io \in {"ok", "design"} :
        LET result == ModelManagerResponse(outcome)
        IN  /\ request_feedback' =
                  IF current_iteration' > 1
                  THEN FormatFeedbackContext(feedback_files, current_iteration')
                  ELSE None
            /\ IF "raised" \in DOMAIN result
               THEN /\ response' = None
                    /\ process_design' = None
                    /\ pc' = "raised"
                    /\ exception' = result.raised
               ELSE /\ response' = result
                    /\ process_design' = GenerateProcessDesign(result)
                    /\ pc' = IF io = "ok" THEN "convert" ELSE "raised"
                    /\ exception' = IF io = "ok" THEN exception ELSE "PersistenceError"
    /\ simulation_results' = None
    /\ evaluation' = None
    /\ feedback' = None
    /\ calls' = <<"generate">>
    /\ UNCHANGED <<max_iterations, best_design, best_score, history, retval,
                   feedback_files, final_report, report_calls, score_log,
                   processes, simulator_run>>

\* Mutant: after a failure the iteration goes back to the conversion.
RecordError_Retry(fb, io) ==
    /\ feedback' = fb
    /\ history' = RecordedHistory(history, current_iteration, None, fb, io)
    /\ feedback_files' = WrittenFeedback(feedback_files, current_iteration, fb, io)
    /\ pc' = IF io = "ok" THEN "convert" ELSE "raised"
    /\ exception' = IF io = "ok" THEN exception ELSE "PersistenceError"

\* Lines 141-150 and 159-168: an except branch records the iteration with
\* an error feedback and continues with the loop test.
RecordError(fb, io) ==
    /\ feedback' = fb
    /\ history' = RecordedHistory(history, current_iteration, None, fb, io)
    /\ feedback_files' = WrittenFeedback(feedback_files, current_iteration, fb, io)
    /\ pc' = IF io = "ok" THEN "loop" ELSE "raised"
    /\ exception' = IF io = "ok" THEN exception ELSE "PersistenceError"

\* Lines 135-150: convert_design_to_dwsim and save_model, both inside the try.
Convert ==
    /\ pc = "convert"
    /\ \E outcome \in {"ok", "ConversionError", "PersistenceError"},
          io \in {"ok", "feedback", "history"} :
        IF outcome = "ok"
        THEN /\ pc' = "simulate"
             /\ calls' = Append(calls, "convert")
             /\ UNCHANGED <<feedback, history, feedback_files, exception>>
        ELSE /\ RecordError(ConversionErrorFeedback(outcome), io)
             /\ calls' = calls \o <<"convert", "record">>
    /\ UNCHANGED <<current_iteration, max_iterations, best_design, best_score,
                   retval, process_design, simulation_results, evaluation,
                   request_feedback, final_report, report_calls, score_log>>
    /\ UNCHANGED <<response, processes, simulator_run>>

\* Mutant: the process is not killed when communicate() times out.
ProcessAfter_NoKill(outcome) ==
    IF outcome = "TimeoutError" THEN "running" ELSE "exited"

\* The external process of run_simulation once the call is over
\* (simulator.py:327-353): communicate() returned because it exited, or
\* raised TimeoutExpired and process.kill() was called before the raise.
ProcessAfter(outcome) ==
    IF outcome = "TimeoutError" THEN "killed" ELSE "exited"

\* Lines 152-168: run_simulation and the write of its results, both inside
\* the try.
Simulate ==
    /\ pc = "simulate"
    /\ \E outcome \in {"ok", "SimulationError", "TimeoutError", "PersistenceError"},
          results \in SimulationResults,
          io \in {"ok", "feedback", "history"} :
        /\ processes' = (current_iteration :> ProcessAfter(outcome)) @@ processes
        /\ IF outcome = "ok"
           THEN /\ simulation_results' = results
                /\ pc' = "evaluate"
                /\ calls' = Append(calls, "simulate")
                /\ UNCHANGED <<feedback, history, feedback_files, exception>>
           ELSE /\ RecordError(SimulationErrorFeedback(outcome), io)
                /\ calls' = calls \o <<"simulate", "record">>
                /\ UNCHANGED simulation_results
    /\ UNCHANGED <<current_iteration, max_iterations, best_design, best_score,
                   retval, process_design, evaluation, request_feedback,
                   final_report, report_calls, score_log>>
    /\ UNCHANGED <<response, simulator_run>>

\* Lines 170-208: evaluation, feedback, score, best design, record, and the
\* return on success.
Evaluate ==
    /\ pc = "evaluate"
    /\ \E constraint_results \in LoopConstraintResults,
          product_evaluation \in LoopProductEvaluations,
          io \in {"ok", "evaluation", "feedback", "history", "report"} :
        LET new_evaluation == [constraint_check |-> constraint_results,
                               product_evaluation |-> product_evaluation]
            fb == GenerateFeedback(constraint_results, product_evaluation)
            current_score == CalculateDesignScore(constraint_results, product_evaluation)
            new_best == [iteration |-> current_iteration,
                         process_design |-> process_design,
                         simulation_results |-> simulation_results,
                         evaluation |-> new_evaluation,
                         score |-> current_score]
        IN  /\ evaluation' = new_evaluation
            /\ IF io = "evaluation"
               THEN /\ pc' = "raised"
                    /\ exception' = "PersistenceError"
                    /\ calls' = Append(calls, "evaluate")
                    /\ UNCHANGED <<best_design, best_score, history, retval, feedback,
                                   feedback_files, final_report, report_calls,
                                   score_log>>
               ELSE /\ feedback' = fb
                    /\ score_log' = Append(score_log, <<current_iteration, current_score>>)
                    /\ best_score' = IF UpdatesBest(current_score, best_score)
                                     THEN current_score ELSE best_score
                    /\ best_design' = IF UpdatesBest(current_score, best_score)
                                      THEN new_best ELSE best_design
                    /\ history' = RecordedHistory(history, current_iteration,
                                                  simulation_results, fb, io)
                    /\ feedback_files' =
                          WrittenFeedback(feedback_files, current_iteration, fb, io)
                    /\ IF io \in {"feedback", "history"}
                       THEN /\ pc' = "raised"
                            /\ exception' = "PersistenceError"
                            /\ calls' = calls \o <<"evaluate", "feedback", "score",
                                                   "record">>
                            /\ UNCHANGED <<retval, final_report, report_calls>>
                       ELSE IF Succeeded(fb)
                       THEN /\ report_calls' = report_calls + 1
                            /\ calls' = calls \o <<"evaluate", "feedback", "score",
                                                   "record", "final_report">>
                            /\ IF io = "report"
                               THEN /\ pc' = "raised"
                                    /\ exception' = "PersistenceError"
                                    /\ UNCHANGED <<retval, final_report>>
                               ELSE /\ pc' = "returned"
                                    /\ retval' = TRUE
                                    /\ final_report' =
                                          GeneratedReport(final_report, current_iteration,
                                                          best_design', best_score')
                                    /\ UNCHANGED exception
                       ELSE /\ pc' = "loop"
                            /\ calls' = calls \o <<"evaluate", "feedback", "score",
                                                   "record">>
                            /\ UNCHANGED <<retval, final_report, report_calls,
                                           exception>>
    /\ UNCHANGED <<current_iteration, max_iterations, process_design,
                   simulation_results, request_feedback>>
    /\ UNCHANGED <<response, processes, simulator_run>>

\* Lines 210-214: the loop test failed. Line 212 subscripts self.best_design
\* before _generate_final_report is called.
BudgetStop ==
    /\ pc = "loop"
    /\ ~LoopCondition(current_iteration, max_iterations)
    /\ \E io \in {"ok", "report"} :
        IF best_design = None
        THEN /\ pc' = "raised"
             /\ exception' = "TypeError"
             /\ UNCHANGED <<retval, final_report, report_calls, calls>>
        ELSE /\ report_calls' = report_calls + 1
             /\ calls' = Append(calls, "final_report")
             /\ IF io = "report"
                THEN /\ pc' = "raised"
                     /\ exception' = "PersistenceError"
                     /\ UNCHANGED <<retval, final_report>>
                ELSE /\ pc' = "returned"
                     /\ retval' = FALSE
                     /\ final_report' = GeneratedReport(final_report, current_iteration,
                                                        best_design, best_score)
                     /\ UNCHANGED exception
    /\ UNCHANGED <<current_iteration, max_iterations, best_design, best_score,
                   history, process_design, simulation_results, evaluation,
                   feedback, request_feedback, feedback_files, score_log>>
    /\ UNCHANGED <<response, processes, simulator_run>>

Next == BeginIteration \/ Convert \/ Simulate \/ Evaluate \/ BudgetStop

Spec == Init /\ [][Next]_vars

----------------------------------------------------------------------------
(* Properties of run() *)

Terminal == pc \in {"returned", "raised"}

NoSuccessRecorded ==
    \A i \in 1..Len(history) : history[i].feedback.status # "success"

LastRecord == history[Len(history)]

\* C1: the first iteration whose feedback status is success ends the run:
\* it is the last record of the history and the current iteration, the
\* final report has been generated once and run() has returned True (or a
\* write has failed); no later iteration exists in any reachable state.
C1_SuccessIsTerminal ==
    \A i \in 1..Len(history) :
        history[i].feedback.status = "success" =>
            /\ i = Len(history)
            /\ i = current_iteration
            /\ Terminal
            /\ pc = "raised" => exception = "PersistenceError"
            /\ pc = "returned" =>
                  /\ retval = TRUE
                  /\ report_calls = 1
                  /\ final_report # None

C1_Witness ==
    /\ pc = "returned"
    /\ retval = TRUE
    /\ Len(history) = 2
    /\ current_iteration < max_iterations
    /\ LastRecord.feedback.status = "success"

\* C2: when no iteration yields success and no write fails, run() runs
\* exactly max_iterations iterations, generates the final report and
\* returns False (stated for the runs of at least one iteration).
C2_BudgetStopReturnsFalse ==
    (Terminal /\ exception # "PersistenceError" /\ NoSuccessRecorded
        /\ current_iteration >= 1) =>
        /\ pc = "returned"
        /\ retval = FALSE
        /\ current_iteration = max_iterations
        /\ Len(history) = max_iterations
        /\ report_calls = 1

\* C3: when the run ends with no best design and no write has failed,
\* run() does not raise: the report body is skipped and run() returns False.
C3_AbsentBestDesignHandled ==
    (Terminal /\ exception # "PersistenceError" /\ best_design = None) =>
        /\ pc = "returned"
        /\ retval = FALSE
        /\ final_report = None

ScoresOf(log) == {log[i][2] : i \in 1..Len(log)}

MaxScore(log) == CHOOSE m \in ScoresOf(log) : \A x \in ScoresOf(log) : x <= m

EarliestWith(log, m) ==
    log[CHOOSE i \in 1..Len(log) :
            /\ log[i][2] = m
            /\ \A j \in 1..(i - 1) : log[j][2] # m][1]

\* C4: best_score is the maximum of the scores computed so far and the
\* best design is that of the earliest iteration with that score; with no
\* score computed there is no best design.
C4_BestIsEarliestMax ==
    IF score_log = <<>>
    THEN best_design = None /\ best_score = NegInf
    ELSE /\ best_score = MaxScore(score_log)
         /\ best_design # None
         /\ best_design.score = best_score
         /\ best_design.iteration = EarliestWith(score_log, best_score)

C4_Witness ==
    /\ Len(score_log) = 3
    /\ score_log[1][2] < score_log[2][2]
    /\ score_log[2][2] = score_log[3][2]
    /\ best_design.iteration = score_log[2][1]

\* C5: best_score never decreases, a best design is never reset to none,
\* and the best design changes only in an iteration whose score is
\* strictly greater than the previous best_score.
C5_BestNeverDecreases ==
    [][ /\ best_score' >= best_score
        /\ best_design # None => best_design' # None
        /\ best_design' # best_design =>
              /\ Len(score_log') = Len(score_log) + 1
              /\ score_log'[Len(score_log')][1] = current_iteration
              /\ score_log'[Len(score_log')][2] > best_score
              /\ best_design'.score = score_log'[Len(score_log')][2]
              /\ best_score' = best_design'.score ]_vars

C5_Witness ==
    /\ Len(score_log) = 3
    /\ best_design.iteration = score_log[2][1]
    /\ score_log[1][2] < score_log[2][2]
    /\ score_log[3][2] < score_log[2][2]

HistoryShape ==
    /\ \A i \in 1..Len(history) : history[i].iteration = i
    /\ pc = "loop" => Len(history) = current_iteration
    /\ pc \in {"convert", "simulate", "evaluate"} =>
          Len(history) = current_iteration - 1
    /\ pc = "returned" =>
          /\ Len(history) = current_iteration
          /\ retval = FALSE => Len(history) = max_iterations
    /\ (pc = "raised" /\ exception = "TypeError") => Len(history) = max_iterations

\* C6: the history is append-only and holds one record per completed
\* iteration, whatever its outcome, the i-th record carrying iteration i:
\* its length is N after N iterations without success and k after success
\* at iteration k.
C6_HistoryRecordsEveryIteration ==
    /\ []HistoryShape
    /\ [][ \/ history' = history
           \/ /\ Len(history') = Len(history) + 1
              /\ SubSeq(history', 1, Len(history)) = history
              /\ history'[Len(history')].iteration = current_iteration ]_vars

C6_Witness ==
    /\ pc = "returned"
    /\ retval = TRUE
    /\ max_iterations = 3
    /\ Len(history) = 2
    /\ history[1].feedback.status = "error"
    /\ history[2].feedback.status = "success"

\* C7: current_iteration starts at 0, stays within 0..max_iterations,
\* increases by exactly 1 in the step that starts an iteration and is
\* changed by no other step.
C7_IterationCounter ==
    /\ current_iteration = 0
    /\ [](current_iteration \in 0..max_iterations)
    /\ [][ IF BeginIteration
           THEN current_iteration' = current_iteration + 1
           ELSE current_iteration' = current_iteration ]_vars

C7_Witness ==
    /\ current_iteration = 3
    /\ max_iterations = 3
    /\ pc = "evaluate"

\* C8: when conversion raises, the iteration is recorded with status error
\* and no simulation result, the converter has been called once and the
\* simulator not at all, best_score and the best design are unchanged, and
\* run() is back at the loop test of the same iteration count.
C8_ConversionFailure ==
    [][ (pc = "convert" /\ pc' # "simulate") =>
           /\ feedback'.status = "error"
           /\ simulation_results' = None
           /\ calls' = <<"generate", "convert", "record">>
           /\ best_score' = best_score
           /\ best_design' = best_design
           /\ score_log' = score_log
           /\ current_iteration' = current_iteration
           /\ pc' \in {"loop", "raised"}
           /\ pc' = "raised" => exception' = "PersistenceError"
           /\ pc' = "loop" =>
                 history' = Append(history,
                                   [iteration |-> current_iteration,
                                    process_design_path |-> current_iteration,
                                    feedback |-> feedback']) ]_vars

C8_Witness ==
    /\ pc = "loop"
    /\ Len(history) >= 2
    /\ LastRecord.feedback.status = "error"
    /\ LastRecord.feedback.message[1] = "Failed to convert design to DWSIM model"
    /\ best_design # None
    /\ current_iteration < max_iterations

\* C9: when the simulator raises, the iteration is recorded with status
\* error and no simulation result, evaluation and scoring are skipped,
\* best_score and the best design are unchanged, and run() is back at the
\* loop test.
C9_SimulationFailure ==
    [][ (pc = "simulate" /\ pc' # "evaluate") =>
           /\ feedback'.status = "error"
           /\ simulation_results' = None
           /\ evaluation' = None
           /\ calls' = <<"generate", "convert", "simulate", "record">>
           /\ best_score' = best_score
           /\ best_design' = best_design
           /\ score_log' = score_log
           /\ current_iteration' = current_iteration
           /\ pc' \in {"loop", "raised"}
           /\ pc' = "raised" => exception' = "PersistenceError"
           /\ pc' = "loop" =>
                 history' = Append(history,
                                   [iteration |-> current_iteration,
                                    process_design_path |-> current_iteration,
                                    feedback |-> feedback']) ]_vars

C9_Witness ==
    /\ pc = "loop"
    /\ Len(history) >= 2
    /\ LastRecord.feedback.status = "error"
    /\ LastRecord.feedback.message = <<"Simulation failed", "TimeoutError">>
    /\ best_design # None
    /\ current_iteration = max_iterations

----------------------------------------------------------------------------
(* _generate_feedback applied to every evaluation *)

InitFeedback ==
    /\ current_iteration = 0
    /\ max_iterations = 0
    /\ best_design = None
    /\ best_score = NegInf
    /\ history = <<>>
    /\ pc = "feedback_input"
    /\ retval = None
    /\ exception = "none"
    /\ process_design = None
    /\ simulation_results = None
    /\ evaluation \in [constraint_check : ConstraintResults,
                        product_evaluation : ProductEvaluations]
    /\ feedback = None
    /\ request_feedback = None
    /\ feedback_files = EmptyDict
    /\ final_report = None
    /\ report_calls = 0
    /\ calls = <<>>
    /\ score_log = <<>>
    /\ response = None
    /\ processes = EmptyDict
    /\ simulator_run = None

ApplyGenerateFeedback ==
    /\ pc = "feedback_input"
    /\ feedback' = GenerateFeedback(evaluation.constraint_check,
                                    evaluation.product_evaluation)
    /\ pc' = "feedback_done"
    /\ UNCHANGED <<current_iteration, max_iterations, best_design, best_score,
                   history, retval, exception, process_design, simulation_results,
                   evaluation, request_feedback, feedback_files, final_report,
                   report_calls, calls, score_log>>
    /\ UNCHANGED <<response, processes, simulator_run>>

NextFeedback == ApplyGenerateFeedback

SpecFeedback == InitFeedback /\ [][NextFeedback]_vars

\* A balance or the specifications count as satisfied when the key is
\* present and true.
Satisfied(d, k) == k \in DOMAIN d /\ d[k]

\* C10: _generate_feedback gives success iff both balances are satisfied
\* and all specifications are met, constraint_violation iff a balance is
\* unsatisfied, product_specs_not_met iff both balances are satisfied and a
\* specification is unmet, and no other status.
C10_StatusClassification ==
    pc = "feedback_done" =>
        LET balances == /\ Satisfied(evaluation.constraint_check, "mass_balance_satisfied")
                        /\ Satisfied(evaluation.constraint_check, "energy_balance_satisfied")
            met == Satisfied(evaluation.product_evaluation, "all_specifications_met")
        IN  /\ feedback.status \in {"success", "constraint_violation",
                                    "product_specs_not_met"}
            /\ feedback.status = "success" <=> (balances /\ met)
            /\ feedback.status = "constraint_violation" <=> ~balances
            /\ feedback.status = "product_specs_not_met" <=> (balances /\ ~met)

C10_Witness ==
    /\ pc = "feedback_done"
    /\ evaluation.constraint_check =
          [mass_balance_satisfied |-> FALSE, mass_balance_error |-> 12,
           energy_balance_satisfied |-> TRUE, energy_balance_error |-> 0]
    /\ Get(evaluation.product_evaluation, "all_specifications_met", TRUE) = FALSE
    /\ feedback.product_issues # <<>>
    /\ feedback.status = "constraint_violation"

----------------------------------------------------------------------------
(* _calculate_design_score applied to every evaluation *)

InitScore ==
    /\ current_iteration = 0
    /\ max_iterations = 0
    /\ best_design = None
    /\ best_score = NegInf
    /\ history = <<>>
    /\ pc = "score_input"
    /\ retval = None
    /\ exception = "none"
    /\ process_design = None
    /\ simulation_results = None
    /\ evaluation \in [constraint_check : ConstraintResults,
                        product_evaluation : ProductEvaluations]
    /\ feedback = None
    /\ request_feedback = None
    /\ feedback_files = EmptyDict
    /\ final_report = None
    /\ report_calls = 0
    /\ calls = <<>>
    /\ score_log = <<>>
    /\ response = None
    /\ processes = EmptyDict
    /\ simulator_run = None

\* The score is logged as in run(): <<iteration, score>>.
ApplyCalculateDesignScore ==
    /\ pc = "score_input"
    /\ score_log' = << <<current_iteration,
                         CalculateDesignScore(evaluation.constraint_check,
                                              evaluation.product_evaluation)>> >>
    /\ pc' = "score_done"
    /\ UNCHANGED <<current_iteration, max_iterations, best_design, best_score,
                   history, retval, exception, process_design, simulation_results,
                   evaluation, feedback, request_feedback, feedback_files,
                   final_report, report_calls, calls>>
    /\ UNCHANGED <<response, processes, simulator_run>>

NextScore == ApplyCalculateDesignScore

SpecScore == InitScore /\ [][NextScore]_vars

ComputedScore == score_log[1][2]

\* C11: for per-product scores in [0, 1] (0..100 hundredths), any balance
\* errors and any number of products, 0 <= score <= 100.
C11_ScoreWithinBounds ==
    pc = "score_done" =>
        /\ 0 <= ComputedScore
        /\ ComputedScore <= 100 * ScoreScale

\* The clamp at 0 acts: both balance penalties are at their cap and two
\* products score 0.
C11_Witness ==
    /\ pc = "score_done"
    /\ ComputedScore = 0
    /\ evaluation.constraint_check =
          [mass_balance_satisfied |-> FALSE, mass_balance_error |-> 12,
           energy_balance_satisfied |-> FALSE, energy_balance_error |-> 12]
    /\ Get(evaluation.product_evaluation, "product_scores", EmptyDict) =
          [p \in Products |-> 0]

RECURSIVE SumOfDeficits(_, _)
SumOfDeficits(scores, names) ==
    IF names = {} THEN 0
    ELSE LET n == CHOOSE x \in names : TRUE
         IN  (100 - scores[n]) + SumOfDeficits(scores, names \ {n})

\* Sum over the products of (100 - normalized_score * 100) / num_products.
ReferenceProductTerm(pe) ==
    LET scores == IF "product_scores" \in DOMAIN pe THEN pe.product_scores ELSE EmptyDict
        n == Cardinality(DOMAIN scores)
    IN  IF n = 0 THEN 0 ELSE (SumOfDeficits(scores, DOMAIN scores) * ScoreScale) \div n

Capped(x) == IF x > 50 * ScoreScale THEN 50 * ScoreScale ELSE x

NotReportedSatisfied(cr, k) == ~(k \in DOMAIN cr /\ cr[k])

ErrorOrZero(cr, k) == IF k \in DOMAIN cr THEN Abs(cr[k]) ELSE 0

\* The reference formula with both balance penalties applied whatever the
\* balance verdicts are.
UnconditionalReference(cr, pe) ==
    LET raw == 100 * ScoreScale
                 - Capped(ErrorOrZero(cr, "mass_balance_error") * 10 * ScoreScale)
                 - Capped(ErrorOrZero(cr, "energy_balance_error") * 5 * ScoreScale)
                 - ReferenceProductTerm(pe)
    IN  IF raw < 0 THEN 0 ELSE raw

\* The reference formula with each balance penalty applied only when that
\* balance is not reported satisfied.
ConditionalReference(cr, pe) ==
    LET mass == IF NotReportedSatisfied(cr, "mass_balance_satisfied")
                THEN Capped(ErrorOrZero(cr, "mass_balance_error") * 10 * ScoreScale)
                ELSE 0
        energy == IF NotReportedSatisfied(cr, "energy_balance_satisfied")
                  THEN Capped(ErrorOrZero(cr, "energy_balance_error") * 5 * ScoreScale)
                  ELSE 0
        raw == 100 * ScoreScale - mass - energy - ReferenceProductTerm(pe)
    IN  IF raw < 0 THEN 0 ELSE raw

\* C12 as stated: the score equals the reference formula, whose balance
\* penalties do not depend on the balance verdicts, for every input with
\* all four balance keys present and non-negative errors.
C12_ScoreEqualsUnconditionalReference ==
    (/\ pc = "score_done"
     /\ DOMAIN evaluation.constraint_check =
           {"mass_balance_satisfied", "mass_balance_error",
            "energy_balance_satisfied", "energy_balance_error"}
     /\ evaluation.constraint_check.mass_balance_error >= 0
     /\ evaluation.constraint_check.energy_balance_error >= 0) =>
        ComputedScore = UnconditionalReference(evaluation.constraint_check,
                                               evaluation.product_evaluation)

\* C12 as amended: the score equals the reference formula in which a
\* balance penalty is subtracted only when that balance is not reported
\* satisfied (an absent verdict reads as unsatisfied, an absent error as 0).
C12_ScoreEqualsConditionalReference ==
    pc = "score_done" =>
        ComputedScore = ConditionalReference(evaluation.constraint_check,
                                             evaluation.product_evaluation)

\* Both balances reported satisfied with non-zero errors: no penalty.
C12_Witness ==
    /\ pc = "score_done"
    /\ evaluation.constraint_check =
          [mass_balance_satisfied |-> TRUE, mass_balance_error |-> 12,
           energy_balance_satisfied |-> TRUE, energy_balance_error |-> 3]
    /\ Get(evaluation.product_evaluation, "product_scores", EmptyDict) =
          [p \in {"P1"} |-> 100]
    /\ ComputedScore = 100 * ScoreScale

\* The score of the evaluation at hand with its mass-balance error replaced.
ScoreWithMassError(e) ==
    CalculateDesignScore([evaluation.constraint_check EXCEPT !["mass_balance_error"] = e],
                         evaluation.product_evaluation)

----------------------------------------------------------------------------
(* ConstraintChecker.check_mass_balance, the mass balance of the simulation
   script, and ResultsAnalyzer.compare_to_targets *)

\* Longest list of feeds, and of products, in a design.
MaxStreams == 2

\* Mass flows, in whole units of flow.
MassFlows == {0, 90, 99, 100}

\* A stream of a design: stream.get("mass_flow", 0.0) reads an absent flow as 0.
DesignStreams == {EmptyDict} \cup {[mass_flow |-> v] : v \in MassFlows}

StreamLists == UNION {[1..n -> DesignStreams] : n \in 0..MaxStreams}

\* Designs given to check_mass_balance: "feeds" and "products" may be absent.
MassDesigns ==
    { Entry("feeds", f) @@ Entry("products", p) :
      f \in Optional(StreamLists), p \in Optional(StreamLists) }

RECURSIVE SumMassFlow(_)
SumMassFlow(streams) ==
    IF streams = <<>> THEN 0
    ELSE Get(Head(streams), "mass_flow", 0) + SumMassFlow(Tail(streams))

\* abs(total_in - total_out) < 1e-6: the flows are whole numbers, the
\* difference is compared in millionths.
CheckMassBalance(design) ==
    LET total_in == SumMassFlow(Get(design, "feeds", <<>>))
        total_out == SumMassFlow(Get(design, "products", <<>>))
    IN  Abs(total_in - total_out) * 1000000 < 1

\* results["streams"] of the simulation script: each stream has its source,
\* its destination and its total flow.
StreamIds == {"S1", "S2"}

ScriptStreams == [from : {"none", "U1"}, to : {"none", "U1"}, total_flow : {0, 90, 100}]

StreamTables == UNION {[ids -> ScriptStreams] : ids \in SUBSET StreamIds}

\* if from == "none": input; elif to == "none": output.
RECURSIVE TotalInputMass(_, _)
TotalInputMass(streams, ids) ==
    IF ids = {} THEN 0
    ELSE LET id == CHOOSE x \in ids : TRUE
         IN  (IF streams[id].from = "none" THEN streams[id].total_flow ELSE 0)
               + TotalInputMass(streams, ids \ {id})

RECURSIVE TotalOutputMass(_, _)
TotalOutputMass(streams, ids) ==
    IF ids = {} THEN 0
    ELSE LET id == CHOOSE x \in ids : TRUE
         IN  (IF streams[id].from # "none" /\ streams[id].to = "none"
              THEN streams[id].total_flow ELSE 0)
               + TotalOutputMass(streams, ids \ {id})

\* results["mass_balance"]: the error percentage is the fraction
\* <<numerator, denominator>>, 100 when nothing flows in.
MassBalance(streams) ==
    LET total_input_mass == TotalInputMass(streams, DOMAIN streams)
        total_output_mass == TotalOutputMass(streams, DOMAIN streams)
    IN  [total_input_mass |-> total_input_mass,
         total_output_mass |-> total_output_mass,
         error_percent |-> IF total_input_mass > 0
                           THEN <<Abs(total_input_mass - total_output_mass) * 100,
                                  total_input_mass>>
                           ELSE <<100, 1>>]

\* Mole fractions, in thousandths.
TargetValues == {0, 5, 900, 990}

ActualValues == {0, 900, 950, 995}

Compounds == {"A"}

Compositions(values) == UNION {[names -> values] : names \in SUBSET Compounds}

ProductCompositions(values) ==
    UNION {[ids -> Compositions(values)] : ids \in SUBSET StreamIds}

\* Targets given to compare_to_targets: "product_compositions" may be absent.
Targets ==
    {Entry("product_compositions", t) : t \in Optional(ProductCompositions(TargetValues))}

\* Analyzed results given to compare_to_targets.
AnalyzedResults ==
    {Entry("product_compositions", r) : r \in Optional(ProductCompositions(ActualValues))}

\* The 1% of line 67, in thousandths.
CompositionTolerance == 10

\* abs(actual_value - target_value) > 0.01 for some compound of some target
\* stream; an absent stream or compound reads as 0.0.
SomeTargetMissed(results, targets) ==
    \E stream_id \in DOMAIN targets.product_compositions :
        LET target_comp == targets.product_compositions[stream_id]
            actual_comp == Get(results.product_compositions, stream_id, EmptyDict)
        IN  \E comp_name \in DOMAIN target_comp :
                Abs(Get(actual_comp, comp_name, 0) - target_comp[comp_name])
                    > CompositionTolerance

\* The outcome of compare_to_targets: it returns False at the first missed
\* target; results["product_compositions"] raises KeyError when there is a
\* target stream and the key is absent; with no target missed it reaches
\* "return Truex", an undefined name, which raises NameError.
CompareToTargets(results, targets) ==
    IF Get(targets, "product_compositions", EmptyDict) = EmptyDict
    THEN "NameError"
    ELSE IF "product_compositions" \notin DOMAIN results
         THEN "KeyError"
         ELSE IF SomeTargetMissed(results, targets) THEN "False" ELSE "NameError"

\* Longest list of connections of a design handed to check_stream_connections.
MaxConnections == 2

UnitIds == {"U1", "U2"}

\* "X" names no unit of the design: a boundary or a unit that does not exist.
ConnectionEnds == UnitIds \cup {"X"}

UnitTypes == {"Reactor", "distillation_column", "heat_exchanger", "pump", "mixer"}

\* str.lower() on the unit types of the model.
Lower(s) == IF s = "Reactor" THEN "reactor" ELSE s

\* A unit entry; its "type" may be absent.
UnitEntries ==
    [id : UnitIds, type : UnitTypes] \cup [id : UnitIds]

\* Unit lists of a design: ids are unique within a design.
UnitLists ==
    {units \in UNION {[1..n -> UnitEntries] : n \in 0..Cardinality(UnitIds)} :
        \A i, j \in DOMAIN units : i # j => units[i].id # units[j].id}

ConnectionLists ==
    UNION {[1..n -> [from : ConnectionEnds, to : ConnectionEnds]] : n \in 0..MaxConnections}

ConnectionDesigns == [unit_operations : UnitLists, connections : ConnectionLists]

\* {unit["id"]: unit for unit in ...}: the last unit of an id is kept.
UnitsById(unit_operations) ==
    [unit_id \in {unit_operations[i].id : i \in DOMAIN unit_operations} |->
        unit_operations[CHOOSE i \in DOMAIN unit_operations :
                            /\ unit_operations[i].id = unit_id
                            /\ \A j \in DOMAIN unit_operations :
                                  unit_operations[j].id = unit_id => j <= i]]

\* Number of connections whose end `key` is unit_id.
CountConnections(connections, key, unit_id) ==
    Cardinality({i \in DOMAIN connections : Get(connections[i], key, None) = unit_id})

CheckStreamConnections_AnyOutlets(design) ==
    LET units == UnitsById(Get(design, "unit_operations", <<>>))
        connections == Get(design, "connections", <<>>)
    IN  \A unit_id \in DOMAIN units :
            LET unit_type == Lower(Get(units[unit_id], "type", ""))
                inlets == CountConnections(connections, "to", unit_id)
                outlets == CountConnections(connections, "from", unit_id)
            IN  IF unit_type \in {"reactor", "distillation_column", "heat_exchanger"}
                THEN ~(inlets = 0 \/ outlets = 0)
                ELSE IF unit_type = "pump"
                     THEN ~(inlets = 0 \/ outlets = 0)
                     ELSE TRUE

\* check_stream_connections: False at the first unit that lacks a required
\* connection, True when the loop over the units ends.
CheckStreamConnections(design) ==
    LET units == UnitsById(Get(design, "unit_operations", <<>>))
        connections == Get(design, "connections", <<>>)
    IN  \A unit_id \in DOMAIN units :
            LET unit_type == Lower(Get(units[unit_id], "type", ""))
                inlets == CountConnections(connections, "to", unit_id)
                outlets == CountConnections(connections, "from", unit_id)
            IN  IF unit_type \in {"reactor", "distillation_column", "heat_exchanger"}
                THEN ~(inlets = 0 \/ outlets = 0)
                ELSE IF unit_type = "pump"
                     THEN ~(inlets = 0 \/ outlets # 1)
                     ELSE TRUE

InitEvaluator ==
    /\ current_iteration = 0
    /\ max_iterations = 0
    /\ best_design = None
    /\ best_score = NegInf
    /\ history = <<>>
    /\ retval = None
    /\ exception = "none"
    /\ evaluation = None
    /\ feedback = None
    /\ request_feedback = None
    /\ feedback_files = EmptyDict
    /\ final_report = None
    /\ report_calls = 0
    /\ calls = <<>>
    /\ score_log = <<>>
    /\ response = None
    /\ processes = EmptyDict
    /\ simulator_run = None
    /\ \/ /\ pc = "mass_input"
          /\ process_design \in MassDesigns
          /\ simulation_results = None
       \/ /\ pc = "script_input"
          /\ process_design = None
          /\ simulation_results \in [streams : StreamTables]
       \/ /\ pc = "targets_input"
          /\ process_design \in Targets
          /\ simulation_results \in AnalyzedResults
       \/ /\ pc = "connections_input"
          /\ process_design \in ConnectionDesigns
          /\ simulation_results = None

ApplyCheckMassBalance ==
    /\ pc = "mass_input"
    /\ retval' = CheckMassBalance(process_design)
    /\ pc' = "mass_done"
    /\ UNCHANGED <<current_iteration, max_iterations, best_design, best_score,
                   history, exception, process_design, simulation_results,
                   evaluation, feedback, request_feedback, feedback_files,
                   final_report, report_calls, calls, score_log>>
    /\ UNCHANGED <<response, processes, simulator_run>>

ApplyMassBalanceScript ==
    /\ pc = "script_input"
    /\ simulation_results' = [streams |-> simulation_results.streams,
                              mass_balance |-> MassBalance(simulation_results.streams)]
    /\ pc' = "script_done"
    /\ UNCHANGED <<current_iteration, max_iterations, best_design, best_score,
                   history, retval, exception, process_design,
                   evaluation, feedback, request_feedback, feedback_files,
                   final_report, report_calls, calls, score_log>>
    /\ UNCHANGED <<response, processes, simulator_run>>

ApplyCompareToTargets ==
    /\ pc = "targets_input"
    /\ LET outcome == CompareToTargets(simulation_results, process_design)
       IN  IF outcome = "False"
           THEN /\ retval' = FALSE
                /\ pc' = "targets_done"
                /\ UNCHANGED exception
           ELSE /\ exception' = outcome
                /\ pc' = "targets_raised"
                /\ UNCHANGED retval
    /\ UNCHANGED <<current_iteration, max_iterations, best_design, best_score,
                   history, process_design, simulation_results,
                   evaluation, feedback, request_feedback, feedback_files,
                   final_report, report_calls, calls, score_log>>
    /\ UNCHANGED <<response, processes, simulator_run>>

ApplyCheckStreamConnections ==
    /\ pc = "connections_input"
    /\ retval' = CheckStreamConnections(process_design)
    /\ pc' = "connections_done"
    /\ UNCHANGED <<current_iteration, max_iterations, best_design, best_score,
                   history, exception, process_design, simulation_results,
                   evaluation, feedback, request_feedback, feedback_files,
                   final_report, report_calls, calls, score_log>>
    /\ UNCHANGED <<response, processes, simulator_run>>

NextEvaluator ==
    \/ ApplyCheckMassBalance
    \/ ApplyMassBalanceScript
    \/ ApplyCompareToTargets
    \/ ApplyCheckStreamConnections

SpecEvaluator == InitEvaluator /\ [][NextEvaluator]_vars

\* Mass-balance tolerances, in percent.
Tolerances == {1, 5}

\* C15: the verdict of check_mass_balance is satisfied iff the input mass
\* is positive and |in - out| / in * 100 is within the configured
\* tolerance; the error reported for a zero input mass is 100 and is the
\* relative error in percent otherwise.
C15_MassBalanceVerdictIsRelative ==
    /\ pc = "mass_done" =>
          LET total_in == SumMassFlow(Get(process_design, "feeds", <<>>))
              total_out == SumMassFlow(Get(process_design, "products", <<>>))
          IN  \E tolerance \in Tolerances :
                  retval <=> (/\ total_in > 0
                              /\ Abs(total_in - total_out) * 100 <= tolerance * total_in)
    /\ pc = "script_done" =>
          LET mb == simulation_results.mass_balance
          IN  /\ mb.total_input_mass = 0 => mb.error_percent = <<100, 1>>
              /\ mb.total_input_mass > 0 =>
                    mb.error_percent[1] * mb.total_input_mass =
                      Abs(mb.total_input_mass - mb.total_output_mass) * 100
                        * mb.error_percent[2]

\* A target stream is met, as the claim defines it: the stream is among the
\* results and each compound's fraction is at least its target less the
\* tolerance.
ProductMet(results, targets, stream_id) ==
    /\ "product_compositions" \in DOMAIN results
    /\ stream_id \in DOMAIN results.product_compositions
    /\ \A comp_name \in DOMAIN targets.product_compositions[stream_id] :
          /\ comp_name \in DOMAIN results.product_compositions[stream_id]
          /\ results.product_compositions[stream_id][comp_name]
                >= targets.product_compositions[stream_id][comp_name]
                     - CompositionTolerance

\* C16: once compare_to_targets has been applied to results that carry
\* product compositions and to targets naming at least one stream, each
\* with a compound, it has returned True iff every target stream is met
\* (its fractions at least target - tolerance, an unmatched stream being
\* unmet), and has returned False otherwise.
C16_AllSpecificationsMetIffEveryProductMet ==
    (/\ pc \in {"targets_done", "targets_raised"}
     /\ "product_compositions" \in DOMAIN simulation_results
     /\ Get(process_design, "product_compositions", EmptyDict) # EmptyDict
     /\ \A stream_id \in DOMAIN process_design.product_compositions :
           DOMAIN process_design.product_compositions[stream_id] # {}) =>
        LET every_met ==
                \A stream_id \in DOMAIN process_design.product_compositions :
                    ProductMet(simulation_results, process_design, stream_id)
        IN  /\ pc = "targets_done"
            /\ retval <=> every_met

----------------------------------------------------------------------------
(* The issues and suggestions of _generate_feedback *)

UnsatisfiedBalances ==
    (IF Satisfied(evaluation.constraint_check, "mass_balance_satisfied") THEN 0 ELSE 1)
      + (IF Satisfied(evaluation.constraint_check, "energy_balance_satisfied") THEN 0 ELSE 1)

\* C17: every unsatisfied balance adds one constraint issue, every
\* (product, issue type) entry of the evaluation's issues adds one product
\* issue, whatever its type, and each of them adds at least one suggestion:
\* there are at least as many suggestions as issues.
C17_EveryIssueHasASuggestion ==
    pc = "feedback_done" =>
        /\ Len(feedback.constraint_issues) = UnsatisfiedBalances
        /\ Len(feedback.product_issues) =
              Len(Get(evaluation.product_evaluation, "issues", <<>>))
        /\ Len(feedback.suggestions) >=
              Len(feedback.constraint_issues) + Len(feedback.product_issues)

MassSuggestion ==
    <<"Adjust flow rates or component splits to ensure mass conservation", "">>

EnergySuggestion ==
    <<"Review heat duties and enthalpy calculations for energy conservation", "">>

\* A suggestion for a product issue names its product.
ForProduct(suggestion) == suggestion[2] \in Products

\* C18: in the suggestions of one feedback, each unsatisfied balance has
\* its suggestion, the suggestion for the mass balance precedes the one for
\* the energy balance, and every suggestion for a balance precedes every
\* suggestion for a product issue.
C18_ConstraintSuggestionsFirst ==
    pc = "feedback_done" =>
        LET suggestions == feedback.suggestions
            n == UnsatisfiedBalances
        IN  /\ Len(suggestions) >= n
            /\ \A i \in 1..Len(suggestions) :
                  IF i <= n
                  THEN suggestions[i] \in {MassSuggestion, EnergySuggestion}
                  ELSE ForProduct(suggestions[i])
            /\ \A i, j \in 1..Len(suggestions) :
                  (suggestions[i] = MassSuggestion /\ suggestions[j] = EnergySuggestion)
                     => i < j

\* Both balances unsatisfied and two product issues with a suggestion each.
C18_Witness ==
    /\ pc = "feedback_done"
    /\ Len(feedback.suggestions) = 4
    /\ feedback.suggestions[1] = MassSuggestion
    /\ feedback.suggestions[2] = EnergySuggestion
    /\ feedback.suggestions[3][2] = "P1"
    /\ feedback.suggestions[4][2] = "P2"

----------------------------------------------------------------------------
(* The feedback of failed iterations and the feedback given to the next request *)

\* C19: the feedback recorded for a conversion or simulation failure has
\* status error, a message, suggestions of its failure class, and
\* constraint_issues and product_issues present and empty.
C19_ErrorFeedbackShape ==
    \A i \in 1..Len(history) :
        LET fb == history[i].feedback
        IN  fb.status = "error" =>
              /\ fb.message[1] \in {"Failed to convert design to DWSIM model",
                                     "Simulation failed"}
              /\ fb.suggestions # <<>>
              /\ fb.message[1] = "Simulation failed" <=>
                    fb.suggestions[1][1] = "Check for invalid input parameters"
              /\ "constraint_issues" \in DOMAIN fb
              /\ "product_issues" \in DOMAIN fb
              /\ fb.constraint_issues = <<>>
              /\ fb.product_issues = <<>>

\* C20: the request of iteration 1 carries no feedback; the request of
\* iteration n > 1 carries the feedback recorded for iteration n - 1, the
\* feedback of a failed iteration included, and nothing else.
C20_RequestCarriesLastFeedback ==
    /\ current_iteration = 1 => request_feedback = None
    /\ current_iteration > 1 =>
          LET fb == history[current_iteration - 1].feedback
          IN  /\ DOMAIN request_feedback =
                    {"last_iteration", "status", "message", "constraint_issues",
                     "product_issues", "suggestions"}
              /\ request_feedback.last_iteration = current_iteration - 1
              /\ history[current_iteration - 1].iteration = current_iteration - 1
              /\ request_feedback.status = fb.status
              /\ request_feedback.message = fb.message
              /\ request_feedback.suggestions = fb.suggestions
              /\ request_feedback.constraint_issues =
                    (IF "constraint_issues" \in DOMAIN fb THEN fb.constraint_issues ELSE <<>>)
              /\ request_feedback.product_issues =
                    (IF "product_issues" \in DOMAIN fb THEN fb.product_issues ELSE <<>>)

\* The request of iteration 3 carries the error feedback of iteration 2,
\* which differs from the feedback of iteration 1.
C20_Witness ==
    /\ current_iteration = 3
    /\ Len(history) >= 2
    /\ history[1].feedback.status = "constraint_violation"
    /\ history[2].feedback.status = "error"
    /\ request_feedback.status = "error"
    /\ request_feedback.last_iteration = 2

----------------------------------------------------------------------------
(* The design request: malformed responses and a failing language model *)

\* A response that is no dict and holds no ```json block that parses.
Unparseable(resp) ==
    /\ ~IsDict(resp)
    /\ ~(IsStr(resp) /\ resp.str = "fenced" /\ resp.block = "object")

\* C21: a response that is no structured design, or whose embedded JSON
\* block fails to parse, is wrapped as {"design_description": response},
\* and the request of a design leads to the conversion: run() is left at
\* that point only by a failure to write the design.
C21_MalformedResponseIsWrapped ==
    /\ [](Unparseable(response) =>
            process_design = [design_description |-> response])
    /\ [][current_iteration' # current_iteration =>
            \/ pc' = "convert"
            \/ pc' = "raised" /\ exception' = "PersistenceError"]_vars

\* A ```json block that fails to parse has been wrapped and the iteration
\* is at the conversion.
C21_Witness ==
    /\ pc = "convert"
    /\ response = FencedStr("broken")
    /\ process_design = [design_description |-> FencedStr("broken")]

\* C22: when the chat completion raises, the exception does not leave
\* run(): the model manager's {"error": ...} is the design of the
\* iteration, and once the iteration is back at the loop test it has been
\* recorded.
C22_GeneratorExceptionDegrades ==
    /\ pc = "raised" => exception \in {"PersistenceError", "TypeError"}
    /\ "error" \in DOMAIN response =>
          /\ process_design = response
          /\ pc = "loop" =>
                /\ Len(history) = current_iteration
                /\ history[current_iteration].iteration = current_iteration

\* The chat completion raised in iteration 1 of 2; the iteration is
\* recorded and the loop goes on.
C22_Witness ==
    /\ pc = "loop"
    /\ current_iteration = 1
    /\ max_iterations = 2
    /\ response = [error |-> "APIError"]
    /\ process_design = [error |-> "APIError"]
    /\ Len(history) = 1

----------------------------------------------------------------------------
(* Failed writes and the simulator process *)

\* C23: a failure to write an artifact of the iteration (the converted
\* model and the simulation results included) leaves run(): no iteration is
\* recorded with status error because of it.
C23_PersistenceFailureIsFatal ==
    \A i \in 1..Len(history) :
        history[i].feedback.status = "error" =>
            history[i].feedback.message[2] # "PersistenceError"

\* C24: when the simulator call times out its process is killed before
\* run_simulation raises: no process started by an iteration is running
\* once the call is over, and the iteration is recorded as a simulation
\* failure.
C24_TimedOutProcessIsKilled ==
    \A i \in DOMAIN processes :
        /\ processes[i] # "running"
        /\ (processes[i] = "killed" /\ i <= Len(history)) =>
              /\ history[i].feedback.status = "error"
              /\ history[i].feedback.message = <<"Simulation failed", "TimeoutError">>
              /\ "simulation_results_path" \notin DOMAIN history[i]

\* The simulator timed out in iteration 1 and the loop is at iteration 2.
C24_Witness ==
    /\ current_iteration = 2
    /\ pc = "convert"
    /\ processes = (1 :> "killed")
    /\ history[1].feedback.status = "error"

----------------------------------------------------------------------------
(* The calls of one iteration *)

\* Number of occurrences of a call in the calls of the current iteration.
RECURSIVE CountCalls(_, _)
CountCalls(trace, name) ==
    IF trace = <<>> THEN 0
    ELSE (IF Head(trace) = name THEN 1 ELSE 0) + CountCalls(Tail(trace), name)

\* C25: in every iteration the design generator is called exactly once,
\* the converter at most once and the simulator at most once, in that
\* order, and the simulator only after the converter.
C25_OneCallPerIteration ==
    current_iteration >= 1 =>
        /\ CountCalls(calls, "generate") = 1
        /\ calls[1] = "generate"
        /\ CountCalls(calls, "convert") <= 1
        /\ CountCalls(calls, "simulate") <= 1
        /\ CountCalls(calls, "simulate") = 1 =>
              (calls[2] = "convert" /\ calls[3] = "simulate")
        /\ pc \in {"simulate", "evaluate"} => process_design # None

\* Iteration 2 has called each collaborator once after a failed iteration 1.
C25_Witness ==
    /\ current_iteration = 2
    /\ Len(history) >= 1
    /\ history[1].feedback.status = "error"
    /\ pc = "evaluate"
    /\ calls = <<"generate", "convert", "simulate">>

----------------------------------------------------------------------------
(* The frame of _record_iteration_results *)

\* C26: a step that records an iteration appends one record, whose
\* feedback is the feedback of the iteration as it was given, writes that
\* feedback to the iteration's feedback.json, and leaves current_iteration
\* unchanged; recording after a failure leaves best_score and the best
\* design unchanged, and recording after an evaluation leaves them as the
\* score comparison of that iteration set them.
C26_RecordingOnlyAppends ==
    [][Len(history') # Len(history) =>
        /\ Len(history') = Len(history) + 1
        /\ \A i \in 1..Len(history) : history'[i] = history[i]
        /\ history'[Len(history')].feedback = feedback'
        /\ feedback_files'[current_iteration] = feedback'
        /\ current_iteration' = current_iteration
        /\ pc \in {"convert", "simulate"} =>
              (best_score' = best_score /\ best_design' = best_design)
        /\ pc = "evaluate" =>
              LET current_score == score_log'[Len(score_log')][2]
              IN  \/ best_score' = best_score /\ best_design' = best_design
                  \/ /\ current_score > best_score
                     /\ best_score' = current_score
                     /\ best_design'.iteration = current_iteration]_vars

\* A failed iteration has been recorded after an iteration that set the
\* best design: the best design is still that of iteration 1.
C26_Witness ==
    /\ current_iteration = 2
    /\ pc = "loop"
    /\ Len(history) = 2
    /\ history[2].feedback.status = "error"
    /\ feedback = history[2].feedback
    /\ best_design # None
    /\ best_design.iteration = 1

----------------------------------------------------------------------------
(* The final report *)

\* C27: when run() has returned, _generate_final_report has been called
\* exactly once, and with a best design the summary of the report has
\* total_iterations = the iterations run = len(history), best_iteration =
\* the best design's iteration and best_score = the controller's.
C27_ReturnHasOneFinalReport ==
    pc = "returned" =>
        /\ report_calls = 1
        /\ CountCalls(calls, "final_report") = 1
        /\ best_design # None =>
              /\ final_report # None
              /\ final_report.summary.total_iterations = current_iteration
              /\ final_report.summary.total_iterations = Len(history)
              /\ final_report.summary.best_iteration = best_design.iteration
              /\ final_report.summary.best_score = best_score
              /\ best_design.score = best_score

\* run() returned False after three iterations whose best was the first.
C27_Witness ==
    /\ pc = "returned"
    /\ retval = FALSE
    /\ current_iteration = 3
    /\ best_design.iteration = 1
    /\ final_report.summary.total_iterations = 3
    /\ final_report.summary.best_iteration = 1

----------------------------------------------------------------------------
(* _generate_process_design applied at every iteration, to every state of
   the previous iteration's feedback.json and every outcome of the model *)

\* A feedback.json that json.load cannot parse.
CorruptFile == [corrupt |-> TRUE]

\* The feedback.json of the previous iteration: absent, not parseable, a
\* document without "status", or a feedback written by run().
PreviousFeedbackFiles ==
    Optional({CorruptFile, EmptyDict,
              ConversionErrorFeedback("ConversionError"),
              SimulationErrorFeedback("TimeoutError")}
             \cup {GenerateFeedback(c, p) :
                      c \in LoopConstraintResults, p \in LoopProductEvaluations})

InitDesign ==
    /\ current_iteration \in 1..MaxIterations
    /\ max_iterations = MaxIterations
    /\ best_design = None
    /\ best_score = NegInf
    /\ history = <<>>
    /\ pc = "design_input"
    /\ retval = None
    /\ exception = "none"
    /\ process_design = None
    /\ simulation_results = None
    /\ evaluation = None
    /\ feedback = None
    /\ request_feedback = None
    /\ \E file \in PreviousFeedbackFiles :
          feedback_files = Entry(current_iteration - 1, file)
    /\ final_report = None
    /\ report_calls = 0
    /\ calls = <<>>
    /\ score_log = <<>>
    /\ response = None
    /\ processes = EmptyDict
    /\ simulator_run = None

\* Lines 216-260: the feedback context for iterations after the first, the
\* request, the parsing of the response, and the optional write of
\* raw_response.txt, which is outside the try.
ApplyGenerateProcessDesign ==
    /\ pc = "design_input"
    /\ \E outcome \in ClientOutcomes, io \in {"ok", "raw_response"} :
        LET result == ModelManagerResponse(outcome)
        IN  /\ request_feedback' =
                  IF current_iteration > 1
                  THEN FormatFeedbackContext(feedback_files, current_iteration)
                  ELSE None
            /\ calls' = <<"generate">>
            /\ IF "raised" \in DOMAIN result
               THEN /\ response' = None
                    /\ process_design' = None
                    /\ pc' = "design_raised"
                    /\ exception' = result.raised
               ELSE /\ response' = result
                    /\ process_design' = GenerateProcessDesign(result)
                    /\ pc' = IF io = "ok" THEN "design_done" ELSE "design_raised"
                    /\ exception' = IF io = "ok" THEN exception ELSE "PersistenceError"
    /\ UNCHANGED <<current_iteration, max_iterations, best_design, best_score,
                   history, retval, simulation_results, evaluation, feedback,
                   feedback_files, final_report, report_calls, score_log,
                   processes, simulator_run>>

NextDesign == ApplyGenerateProcessDesign

SpecDesign == InitDesign /\ [][NextDesign]_vars

PreviousFileAbsent == (current_iteration - 1) \notin DOMAIN feedback_files

PreviousFileUnreadable ==
    /\ (current_iteration - 1) \in DOMAIN feedback_files
    /\ "status" \notin DOMAIN feedback_files[current_iteration - 1]

NoFeedbackText == [text |-> "No feedback available from previous iterations."]

\* The design has been requested and no exception other than a failed
\* write of the raw response has left _generate_process_design.
DesignRequested ==
    /\ calls = <<"generate">>
    /\ pc = "design_raised" => exception = "PersistenceError"
    /\ pc = "design_done" => process_design # None

\* C28 as stated: for iteration n > 1, when the feedback.json of iteration
\* n - 1 is absent or unreadable the context is the fixed text 'No feedback
\* available ...', building it raises nothing and the design is requested.
C28_AbsentOrUnreadableGivesNoFeedbackText ==
    (pc \in {"design_done", "design_raised"} /\ current_iteration > 1) =>
        /\ DesignRequested
        /\ (PreviousFileAbsent \/ PreviousFileUnreadable) =>
              request_feedback = NoFeedbackText

\* C28 as amended: an absent feedback.json gives the text 'No feedback
\* available ...', an unreadable one the text 'Error retrieving feedback
\* ...'; building the context raises nothing and the design is requested.
C28_FeedbackContextNeverRaises ==
    (pc \in {"design_done", "design_raised"} /\ current_iteration > 1) =>
        /\ DesignRequested
        /\ PreviousFileAbsent => request_feedback = NoFeedbackText
        /\ PreviousFileUnreadable =>
              request_feedback =
                [text |-> "Error retrieving feedback from previous iterations."]

\* Iteration 2 has its design although feedback.json of iteration 1 could
\* not be parsed.
C28_Witness ==
    /\ pc = "design_done"
    /\ current_iteration = 2
    /\ feedback_files = (1 :> CorruptFile)
    /\ request_feedback.text = "Error retrieving feedback from previous iterations."
    /\ process_design = CHOOSE d \in Designs : TRUE

----------------------------------------------------------------------------
(* Evaluation of an input without balance data *)

\* C29: an input of the mass-balance check that carries no stream, the
\* empty design included, is not judged satisfied.
C29_MissingBalanceDataIsUnsatisfied ==
    (/\ pc = "mass_done"
     /\ Get(process_design, "feeds", <<>>) = <<>>
     /\ Get(process_design, "products", <<>>) = <<>>) =>
        retval = FALSE

----------------------------------------------------------------------------
(* Termination of run() *)

\* run() is sequential code: as long as every call it makes returns or
\* raises, its next step is taken.
SpecLive == Init /\ [][Next]_vars /\ WF_vars(Next)

\* C30: every run reaches a terminal state: run() returns, after a success
\* or at the end of the budget, also when every iteration failed; only a
\* failed write may end it otherwise. It never runs more than
\* max_iterations iterations.
C30_RunReachesTerminalState ==
    /\ [](current_iteration <= max_iterations)
    /\ <>(\/ pc = "returned"
          \/ pc = "raised" /\ exception = "PersistenceError")

----------------------------------------------------------------------------
(* DWSIMSimulator.run_simulation *)

\* What the external process does: Popen fails, communicate() times out,
\* or the process exits with a return code.
ProcessOutcomes ==
    {[kind |-> "not_started"], [kind |-> "timeout"]}
      \cup {[kind |-> "exited", returncode |-> c] : c \in {0, 1, 137}}

\* The results file once the process is over: absent (<<>>), or present:
\* not parseable, a JSON array, the error document of the automation
\* script (simulator.py:263-276), or a results document, which has no
\* "status".
ResultsFiles ==
    Optional({CorruptFile, AList, EmptyDict,
              [status |-> "error", message |-> "script"],
              [status |-> "error"],
              [status |-> "ok", streams |-> "streams"],
              [streams |-> "streams"],
              [streams |-> "streams", mass_balance |-> "mass_balance"]})

SimulatorRuns ==
    [process : ProcessOutcomes, results_file : ResultsFiles,
     script_io : {"ok", "script"}]

\* Mutant: the status of the results document is not tested.
RunSimulation_IgnoresStatus(run) ==
    IF run.script_io # "ok" THEN [raised |-> "OSError"]
    ELSE IF run.process.kind = "not_started" THEN [raised |-> "OSError"]
    ELSE IF run.process.kind = "timeout" THEN [raised |-> "RuntimeError: timed out"]
    ELSE IF run.process.returncode # 0 THEN [raised |-> "RuntimeError: exit code"]
    ELSE IF run.results_file = <<>> THEN [raised |-> "RuntimeError: results file not found"]
    ELSE LET results == run.results_file[1]
         IN  IF results = CorruptFile THEN [raised |-> "JSONDecodeError"]
             ELSE IF ~IsDict(results) THEN [raised |-> "AttributeError"]
             ELSE [returned |-> results]

\* run_simulation (simulator.py:278-370): the write of the script, Popen,
\* communicate with the timeout, the return code, the results file, its
\* parsing and its status; [raised |-> e] when it raises e, [returned |-> r]
\* when it returns r.
RunSimulation(run) ==
    IF run.script_io # "ok" THEN [raised |-> "OSError"]
    ELSE IF run.process.kind = "not_started" THEN [raised |-> "OSError"]
    ELSE IF run.process.kind = "timeout" THEN [raised |-> "RuntimeError: timed out"]
    ELSE IF run.process.returncode # 0 THEN [raised |-> "RuntimeError: exit code"]
    ELSE IF run.results_file = <<>> THEN [raised |-> "RuntimeError: results file not found"]
    ELSE LET results == run.results_file[1]
         IN  IF results = CorruptFile THEN [raised |-> "JSONDecodeError"]
             ELSE IF ~IsDict(results) THEN [raised |-> "AttributeError"]
             ELSE IF Get(results, "status", "") = "error"
                  THEN [raised |-> "RuntimeError: simulation error"]
                  ELSE [returned |-> results]

InitSimulator ==
    /\ current_iteration \in 1..MaxIterations
    /\ max_iterations = MaxIterations
    /\ best_design = None
    /\ best_score = NegInf
    /\ history = <<>>
    /\ pc = "simulator_input"
    /\ retval = None
    /\ exception = "none"
    /\ process_design = None
    /\ simulation_results = None
    /\ evaluation = None
    /\ feedback = None
    /\ request_feedback = None
    /\ feedback_files = EmptyDict
    /\ final_report = None
    /\ report_calls = 0
    /\ calls = <<>>
    /\ score_log = <<>>
    /\ response = None
    /\ processes = EmptyDict
    /\ simulator_run \in SimulatorRuns

ApplyRunSimulation ==
    /\ pc = "simulator_input"
    /\ LET result == RunSimulation(simulator_run)
       IN  IF "raised" \in DOMAIN result
           THEN /\ exception' = result.raised
                /\ pc' = "simulator_raised"
                /\ UNCHANGED simulation_results
           ELSE /\ simulation_results' = result.returned
                /\ pc' = "simulator_returned"
                /\ UNCHANGED exception
    /\ processes' =
          IF simulator_run.script_io # "ok" \/ simulator_run.process.kind = "not_started"
          THEN processes
          ELSE (current_iteration :>
                  ProcessAfter(IF simulator_run.process.kind = "timeout"
                               THEN "TimeoutError" ELSE "ok")) @@ processes
    /\ UNCHANGED <<current_iteration, max_iterations, best_design, best_score,
                   history, retval, process_design, evaluation, feedback,
                   request_feedback, feedback_files, final_report, report_calls,
                   calls, score_log, response, simulator_run>>

NextSimulator == ApplyRunSimulation

SpecSimulator == InitSimulator /\ [][NextSimulator]_vars

\* C31: run_simulation returns results only when the process exited with
\* code 0 within the timeout, the results file exists and its status is
\* not error; after a non-zero exit, a timeout, a missing results file or
\* an error status it has raised.
C31_ReturnsOnlyGoodResults ==
    /\ pc = "simulator_returned" =>
          /\ simulator_run.process.kind = "exited"
          /\ simulator_run.process.returncode = 0
          /\ simulator_run.results_file # <<>>
          /\ simulation_results = simulator_run.results_file[1]
          /\ Get(simulation_results, "status", "") # "error"
    /\ (/\ pc \in {"simulator_returned", "simulator_raised"}
        /\ \/ simulator_run.process.kind # "exited"
           \/ simulator_run.process.returncode # 0
           \/ simulator_run.results_file = <<>>
           \/ (IsDict(simulator_run.results_file[1])
                 /\ Get(simulator_run.results_file[1], "status", "") = "error"))
          => pc = "simulator_raised"

\* The process exited with code 0 and left an error document: raised.
C31_Witness ==
    /\ pc = "simulator_raised"
    /\ simulator_run.process = [kind |-> "exited", returncode |-> 0]
    /\ simulator_run.results_file = <<[status |-> "error", message |-> "script"]>>
    /\ exception = "RuntimeError: simulation error"

----------------------------------------------------------------------------
(* compare_to_targets as a boolean function *)

\* Every compound of every target stream is within the tolerance of its
\* target, an absent stream or compound counting as 0.
AllTargetsWithinTolerance(results, targets) ==
    \A stream_id \in DOMAIN targets.product_compositions :
        \A comp_name \in DOMAIN targets.product_compositions[stream_id] :
            LET actual_comp == Get(results.product_compositions, stream_id, EmptyDict)
            IN  Abs(Get(actual_comp, comp_name, 0)
                      - targets.product_compositions[stream_id][comp_name])
                  <= CompositionTolerance

\* C32: applied to results that carry product compositions and to targets
\* that name a compound of a product stream, compare_to_targets returns a
\* boolean:
\* True iff every target is within 0.01 of the actual fraction, False
\* otherwise.
C32_CompareToTargetsReturnsBoolean ==
    (/\ pc \in {"targets_done", "targets_raised"}
     /\ "product_compositions" \in DOMAIN simulation_results
     /\ "product_compositions" \in DOMAIN process_design
     /\ \E stream_id \in DOMAIN process_design.product_compositions :
           DOMAIN process_design.product_compositions[stream_id] # {}) =>
        /\ pc = "targets_done"
        /\ retval \in BOOLEAN
        /\ retval <=> AllTargetsWithinTolerance(simulation_results, process_design)

----------------------------------------------------------------------------
(* check_stream_connections *)

Inlets(design, unit_id) ==
    {i \in DOMAIN design.connections : design.connections[i].to = unit_id}

Outlets(design, unit_id) ==
    {i \in DOMAIN design.connections : design.connections[i].from = unit_id}

\* The connection requirement of one unit of the design.
WellConnected(design, unit) ==
    LET kind == IF "type" \in DOMAIN unit THEN Lower(unit.type) ELSE ""
    IN  /\ kind \in {"reactor", "distillation_column", "heat_exchanger"} =>
              /\ Cardinality(Inlets(design, unit.id)) >= 1
              /\ Cardinality(Outlets(design, unit.id)) >= 1
        /\ kind = "pump" =>
              /\ Cardinality(Inlets(design, unit.id)) >= 1
              /\ Cardinality(Outlets(design, unit.id)) = 1

\* The design without the connections that touch none of its units.
WithoutForeignConnections(design) ==
    LET ids == {design.unit_operations[i].id : i \in DOMAIN design.unit_operations}
    IN  [design EXCEPT !.connections =
            SelectSeq(design.connections,
                      LAMBDA c : c.from \in ids \/ c.to \in ids)]

----------------------------------------------------------------------------
(* The final report of a successful run *)

\* C34: whenever run() returns True, the final report says success and
\* names the last iteration, the successful one, as the best iteration,
\* whatever the earlier iterations scored.
C34_SuccessfulRunReportsLastIteration ==
    (pc = "returned" /\ retval = TRUE) =>
        /\ final_report # None
        /\ final_report.summary.success = TRUE
        /\ final_report.summary.best_iteration = current_iteration

----------------------------------------------------------------------------
(* The best design and the best score *)

\* C35: the best design is None iff best_score is -infinity iff no iteration
\* has been scored; a stored best design has the score best_score, an
\* iteration between 1 and current_iteration, a simulation result and an
\* evaluation, and is never an iteration recorded with status "error".
C35_BestDesignMatchesBestScore ==
    /\ (best_design = None) <=> (best_score = NegInf)
    /\ (best_design = None) <=> (score_log = <<>>)
    /\ best_design # None =>
          /\ best_design.score = best_score
          /\ best_design.iteration \in 1..current_iteration
          /\ {"simulation_results", "evaluation"} \subseteq DOMAIN best_design
          /\ best_design.simulation_results \in SimulationResults
          /\ DOMAIN best_design.evaluation = {"constraint_check", "product_evaluation"}
          /\ \E i \in DOMAIN score_log :
                score_log[i] = <<best_design.iteration, best_design.score>>
          /\ \A i \in DOMAIN history :
                history[i].iteration = best_design.iteration =>
                    history[i].feedback.status # "error"

\* The best design is the second iteration, kept through a third iteration
\* that failed with an error.
C35_Witness ==
    /\ pc = "loop"
    /\ current_iteration = 3
    /\ Len(history) = 3
    /\ history[1].feedback.status = "error"
    /\ history[3].feedback.status = "error"
    /\ best_design # None
    /\ best_design.iteration = 2
    /\ best_design.score = best_score

----------------------------------------------------------------------------
(* Simulation-result references in the history *)

----------------------------------------------------------------------------
(* Issue lists and status of a generated feedback *)

\* C37: a feedback produced by _generate_feedback has constraint issues iff
\* its status is "constraint_violation", so that "success" and
\* "product_specs_not_met" come with an empty constraint_issues list, and a
\* "success" feedback lists no product issues.
C37_IssueListsAgreeWithStatus ==
    pc = "feedback_done" =>
        /\ feedback.constraint_issues # <<>> <=> feedback.status = "constraint_violation"
        /\ feedback.status \in {"success", "product_specs_not_met"} =>
              feedback.constraint_issues = <<>>
        /\ feedback.status = "success" => feedback.product_issues = <<>>

----------------------------------------------------------------------------
(* Order of the steps of an iteration *)

\* The steps of an evaluated iteration, in the order of lines 119-208; the
\* final report follows the status check, or the failed loop test.
StepOrder ==
    <<"generate", "convert", "simulate", "evaluate", "feedback", "score",
      "record", "final_report">>

IsPrefix(s, t) ==
    /\ Len(s) <= Len(t)
    /\ \A i \in 1..Len(s) : s[i] = t[i]

\* Iteration i is recorded: it is the last record of the history and its
\* feedback is the one persisted for it.
RecordComplete(i) ==
    /\ Len(history) = i
    /\ history[i].iteration = i
    /\ i \in DOMAIN feedback_files
    /\ feedback_files[i] = history[i].feedback

\* A step that requests the design of the iteration after one that ran.
RequestsNextDesign ==
    /\ current_iteration' = current_iteration + 1
    /\ current_iteration >= 1

\* A step that generates the final report.
GeneratesFinalReport == report_calls' = report_calls + 1

\* The record of the current iteration is complete whenever the next design
\* is requested and whenever the final report is generated, which follows
\* the recording step.
RecordPrecedes ==
    /\ RequestsNextDesign => RecordComplete(current_iteration)
    /\ GeneratesFinalReport =>
          /\ Len(history') = current_iteration'
          /\ history'[current_iteration'].iteration = current_iteration'
          /\ current_iteration' \in DOMAIN feedback_files'
          /\ feedback_files'[current_iteration'] = history'[current_iteration'].feedback
          /\ calls'[Len(calls') - 1] = "record"

\* C38: the steps of an evaluated iteration occur in the order request
\* design, convert, simulate, evaluate, score, record, status check; and the
\* record of iteration i, persisted feedback included, is complete before
\* the design of iteration i + 1 is requested and before the final report
\* is generated.
C38_StepsInOrder ==
    /\ [](("evaluate" \in {calls[i] : i \in DOMAIN calls}) => IsPrefix(calls, StepOrder))
    /\ [][RecordPrecedes]_vars

\* The design of iteration 2 has been requested after iteration 1 was
\* evaluated, scored and recorded.
C38_Witness ==
    /\ pc = "convert"
    /\ current_iteration = 2
    /\ calls = <<"generate">>
    /\ Len(history) = 1
    /\ history[1].feedback.status = "product_specs_not_met"
    /\ feedback_files[1] = history[1].feedback
    /\ score_log # <<>>

====
